---- MODULE Spec2Model ----
(***************************************************************************)
(* Model of the IPTC fuzzing harnesses in src/oss-fuzz:                    *)
(*   - CreateMalformedIPTCProfile (iptc_profile_advanced_fuzzer.cc),       *)
(*     the generator that turns the fuzzer's bytes into a malformed IPTC   *)
(*     record stream;                                                      *)
(*   - the two LLVMFuzzerTestOneInput entry points and IsInvalidSize.      *)
(* Data is a TLA+ sequence, so the C++ Data[k] is Data[k + 1] here.        *)
(***************************************************************************)
EXTENDS Integers, Sequences, FiniteSets, TLC

\* ------------------------------------------------------------------------
\* Program constants
\* ------------------------------------------------------------------------
IPTC_SENTINEL == 28
MIN_IPTC_SIZE == 8
MAX_IPTC_SIZE == 65536
MaxFuzzSize == 8192
UInt16Mod == 65536
UInt8Mod == 256

\* ------------------------------------------------------------------------
\* Bounds of the model: the inputs the generator is run on
\* ------------------------------------------------------------------------
\* every byte string over SmallBytes of at most this length is an input
MaxSmallSize == 4
\* every byte string over TailBytes of at most this length follows the
\* first record of a long input
MaxTail == 5

SmallBytes == {0, 3, 31}
TailBytes == {0, 1}
\* what a read past the end of Data may return
Junk == {0, 255}

Min(a, b) == IF a < b THEN a ELSE b

RECURSIVE SeqsUpTo(_, _)
SeqsUpTo(S, n) ==
  IF n = 0 THEN {<<>>}
  ELSE LET shorter == SeqsUpTo(S, n - 1)
       IN shorter \cup {Append(s, b) : s \in {t \in shorter : Len(t) = n - 1}, b \in S}

Fill(n) == [k \in 1..n |-> 65 + (k % 7)]
Zeros(n) == [k \in 1..n |-> 0]
Prefix(s, n) == SubSeq(s, 1, Min(n, Len(s)))

\* inputs of size 0..MaxSmallSize: no override, no gate
SmallInputs == SeqsUpTo(SmallBytes, MaxSmallSize)

\* inputs of size 5..12 whose first record takes a forced length
\* (Data[3] mod 4 in 0..2), with the four gates open or shut
OverrideInputs ==
  { Prefix(<<b0, 7, 9, b3, g[1], g[2], g[3], g[4], 255, 255, 1, 2>>, n) :
      b0 \in {21}, b3 \in {0, 5, 10},
      g \in {<<0, 1, 2, 3>>, <<1, 2, 3, 4>>}, n \in {5, 9, 12} }

\* inputs of size 5..10 whose first record keeps its derived length
\* (Data[3] = 3, so the length is 768 + Data[4])
DerivedInputs ==
  { Prefix(<<b0, 7, 9, 3, b4, b5, b6, b7, 11, 12>>, n) :
      b0 \in {0, 12}, b4 \in {0, 1}, b5 \in {1, 2}, b6 \in {2, 3},
      b7 \in {3, 4, 7}, n \in 5..10 }

\* inputs whose first record (declared length 768) is fully backed by input,
\* followed by a tail that later records and the gates consume
LongTails ==
  SeqsUpTo(TailBytes, MaxTail) \cup {Zeros(n) : n \in {36, 37, 60, 90}}
LongInputs ==
  { <<b0, 7, 9, 3>> \o g \o Fill(765 + g[1]) \o t :
      b0 \in {0, 2, 9},
      g \in {<<0, 1, 2, 3>>, <<1, 0, 0, 3>>, <<1, 2, 3, 4>>},
      t \in LongTails }

\* inputs whose first record takes the forced length 0x7FFF and is still
\* fully backed by input, so that a second record follows it
HugeInputs ==
  { <<21, 7, 9, 10, 0, 1, 2, 3>> \o Fill(32764) \o t :
      t \in {<<2, 5, 0, 0>>, <<2, 5, 0, 3, 8>>} }

\* inputs on either side of the harness's size limit
EdgeInputs == { <<0, 7, 9, 3, 0, 1, 2, 3>> \o Fill(n) : n \in {8184, 8185} }

Inputs == SmallInputs \cup OverrideInputs \cup DerivedInputs \cup LongInputs
            \cup HugeInputs \cup EdgeInputs

\* inputs the fuzz engine may pass to a later invocation in the same process:
\* one the size gate rejects and one it accepts
ReplayInputs == { Prefix(<<0, 7, 9, 3, 0, 1, 2, 3, 11, 12>>, n) : n \in {7, 9} }

\* what is called: the generator alone, or one of the two fuzz entry points
Entries == {"generate", "advanced", "basic"}

\* how a call into Magick++ ends
Outcomes == {"ok", "MagickException"}

\* ------------------------------------------------------------------------
\* State
\* ------------------------------------------------------------------------
VARIABLES
  entry,         \* which function the input is passed to
  Data,          \* the fuzzer's input buffer; Size is its length
  hpc,           \* position inside LLVMFuzzerTestOneInput ("none": not called)
  ret,           \* its return value: <<>> until it returns, then <<value>>
  escaped,       \* an exception left LLVMFuzzerTestOneInput
  coutBuf,       \* std::cout.rdbuf(): "orig" or "null"
  attached,      \* names of the profiles set on image
  pc,            \* position inside CreateMalformedIPTCProfile
  iptcProfile,   \* the vector being built
  numRecords, dataOffset, i, length, actualLength,   \* its locals
  reads,         \* history: the reads Data[lo..hi], with the source line
  recs,          \* history: one entry per base record of the main loop
  mainLen        \* history: size of iptcProfile when the main loop ended

hvars == <<hpc, ret, escaped, coutBuf, attached>>
gvars == <<pc, iptcProfile, numRecords, dataOffset, i, length, actualLength,
           reads, recs, mainLen>>
vars == <<entry, Data, hpc, ret, escaped, coutBuf, attached, pc, iptcProfile,
          numRecords, dataOffset, i, length, actualLength, reads, recs, mainLen>>

Size == Len(Data)

Frame ==
  [pc |-> pc, iptcProfile |-> iptcProfile, numRecords |-> numRecords,
   dataOffset |-> dataOffset, i |-> i, length |-> length,
   actualLength |-> actualLength, reads |-> reads, recs |-> recs,
   mainLen |-> mainLen]

Frame0 ==
  [pc |-> "entry", iptcProfile |-> <<>>, numRecords |-> 0, dataOffset |-> 0,
   i |-> 0, length |-> 0, actualLength |-> 0, reads |-> <<>>, recs |-> <<>>,
   mainLen |-> 0]

Becomes(f) ==
  /\ pc' = f.pc
  /\ iptcProfile' = f.iptcProfile
  /\ numRecords' = f.numRecords
  /\ dataOffset' = f.dataOffset
  /\ i' = f.i
  /\ length' = f.length
  /\ actualLength' = f.actualLength
  /\ reads' = f.reads
  /\ recs' = f.recs
  /\ mainLen' = f.mainLen

\* ------------------------------------------------------------------------
\* CreateMalformedIPTCProfile, as pure steps on a frame f over input D
\* ------------------------------------------------------------------------
\* Data[k]; a read past the end is undefined and returns junk
Rd(D, k, junk) == IF k < Len(D) THEN D[k + 1] ELSE junk

\* history entries: one read Data[k], and the cnt reads of a copy loop from off
Seen(k, line) == [lo |-> k, hi |-> k, at |-> line]
SeenRun(off, cnt, line) ==
  IF cnt > 0 THEN <<[lo |-> off, hi |-> off + cnt - 1, at |-> line]>> ELSE <<>>

\* size_t subtraction a - b: wraps to a value above every uint16 when b > a
SizeTWrap == 2147483647
USub(a, b) == IF a >= b THEN a - b ELSE SizeTWrap - (b - a) + 1

\* lines 57-61
GenBegin(D, f, junk) ==
  [f EXCEPT
     !.pc = "loop",
     !.iptcProfile = <<>>,
     !.numRecords = IF Len(D) > 0 THEN (Rd(D, 0, junk) % 10) + 1 ELSE 1,
     !.reads = IF Len(D) > 0 THEN <<Seen(0, 60)>> ELSE <<>>,
     !.dataOffset = 1]

\* line 63
LoopCondNoCount(D, f) == f.dataOffset < Len(D)
LoopCond(D, f) == f.i < f.numRecords /\ f.dataOffset < Len(D)

\* line 77: two unread bytes remain at offset o
HasTwoBytesOffByOne(D, o) == o < Len(D)
HasTwoBytes(D, o) == o + 1 < Len(D)

\* line 85
OverrideEveryRecord(D, f) == Len(D) > 4
OverrideApplies(D, f) == f.i = 0 /\ Len(D) > 4

\* lines 87-93
OverrideLength(d3, derived) ==
  IF d3 % 4 = 0 THEN 65535
  ELSE IF d3 % 4 = 1 THEN 65520
  ELSE IF d3 % 4 = 2 THEN 32767
  ELSE derived

OverrideReads(d3) ==
  <<Seen(3, 87)>>
    \o (IF d3 % 4 # 0 THEN <<Seen(3, 89)>> ELSE <<>>)
    \o (IF d3 % 4 \notin {0, 1} THEN <<Seen(3, 91)>> ELSE <<>>)

\* lines 65-98
GenHeader(D, f, junk) ==
  LET n == Len(D)
      o0 == f.dataOffset
      hasDs == o0 < n
      dataset == IF hasDs THEN Rd(D, o0, junk) ELSE 2
      o1 == IF hasDs THEN o0 + 1 ELSE o0
      hasRec == o1 < n
      record == IF hasRec THEN Rd(D, o1, junk) ELSE 5
      o2 == IF hasRec THEN o1 + 1 ELSE o1
      two == HasTwoBytes(D, o2)
      one == ~two /\ o2 < n
      derived == IF two THEN (Rd(D, o2, junk) * 256 + Rd(D, o2 + 1, junk)) % UInt16Mod
                 ELSE IF one THEN Rd(D, o2, junk)
                 ELSE 0
      o3 == IF two THEN o2 + 2 ELSE IF one THEN o2 + 1 ELSE o2
      ovr == OverrideApplies(D, f)
      d3 == Rd(D, 3, junk)
      len == IF ovr THEN OverrideLength(d3, derived) ELSE derived
      rd == (IF hasDs THEN <<Seen(o0, 68)>> ELSE <<>>)
              \o (IF hasRec THEN <<Seen(o1, 72)>> ELSE <<>>)
              \o (IF two THEN <<Seen(o2, 78), Seen(o2 + 1, 78)>>
                  ELSE IF one THEN <<Seen(o2, 81)>> ELSE <<>>)
              \o (IF ovr THEN OverrideReads(d3) ELSE <<>>)
  IN [f EXCEPT
        !.pc = "payload",
        !.iptcProfile = f.iptcProfile \o
            <<IPTC_SENTINEL, dataset, record,
              (len \div 256) % UInt8Mod, len % UInt8Mod>>,
        !.dataOffset = o3,
        !.length = len,
        !.reads = f.reads \o rd,
        !.recs = Append(f.recs,
            [at |-> Len(f.iptcProfile) + 1, i |-> f.i, cursor |-> o0,
             derived |-> derived, length |-> len, lenFrom |-> o2,
             lenBytes |-> o3 - o2,
             subAt |-> 0, avail |-> 0, actual |-> 0, padded |-> 0,
             end |-> 0])]

\* lines 101-104 with `Data[dataOffset + j]` in place of `Data[dataOffset++]`
GenPayloadNoAdvance(D, f, junk) ==
  LET n == Len(D)
      actual == Min(f.length, USub(n, f.dataOffset))
      left == IF f.dataOffset < n THEN n - f.dataOffset ELSE 0
      cnt == Min(actual, left)
      r == Len(f.recs)
  IN [f EXCEPT
        !.pc = "pad",
        !.actualLength = actual,
        !.iptcProfile = f.iptcProfile \o
            [k \in 1..cnt |-> Rd(D, f.dataOffset + k - 1, junk)],
        !.reads = f.reads \o SeenRun(f.dataOffset, cnt, 103),
        !.recs[r].subAt = f.dataOffset,
        !.recs[r].avail = left,
        !.recs[r].actual = cnt]

\* lines 101-104
GenPayload(D, f, junk) ==
  LET n == Len(D)
      actual == Min(f.length, USub(n, f.dataOffset))
      left == IF f.dataOffset < n THEN n - f.dataOffset ELSE 0
      cnt == Min(actual, left)
      r == Len(f.recs)
  IN [f EXCEPT
        !.pc = "pad",
        !.actualLength = actual,
        !.iptcProfile = f.iptcProfile \o
            [k \in 1..cnt |-> Rd(D, f.dataOffset + k - 1, junk)],
        !.reads = f.reads \o SeenRun(f.dataOffset, cnt, 103),
        !.dataOffset = f.dataOffset + cnt,
        !.recs[r].subAt = f.dataOffset,
        !.recs[r].avail = left,
        !.recs[r].actual = cnt]

\* line 109: the byte pushed for loop index j
PadByteLowerCase(j) == (97 + (j % 26)) % UInt8Mod
PadByte(j) == (65 + (j % 26)) % UInt8Mod

\* lines 107-108: how many times the padding loop runs
PadCountInclusive(f) ==
  IF f.actualLength < f.length THEN f.length - f.actualLength + 1 ELSE 0
PadCount(f) ==
  IF f.actualLength < f.length THEN f.length - f.actualLength ELSE 0

\* lines 107-111, and the i++ of line 63
GenPad(D, f, junk) ==
  LET cnt == PadCount(f)
      r == Len(f.recs)
      out == f.iptcProfile \o [k \in 1..cnt |-> PadByte(f.actualLength + k - 1)]
  IN [f EXCEPT
        !.pc = "loop",
        !.iptcProfile = out,
        !.i = f.i + 1,
        !.recs[r].padded = cnt,
        !.recs[r].end = Len(out)]

\* line 63, the condition false
GenLoopExit(D, f, junk) ==
  [f EXCEPT !.pc = "gate1", !.mainLen = Len(f.iptcProfile)]

\* `for (i = 0; i < max && dataOffset < Size; i++) push_back(Data[dataOffset++])`
Trailing(D, f, junk, max, line) ==
  LET n == Len(D)
      cnt == Min(max, IF f.dataOffset < n THEN n - f.dataOffset ELSE 0)
  IN [f EXCEPT
        !.iptcProfile = f.iptcProfile \o
            [k \in 1..cnt |-> Rd(D, f.dataOffset + k - 1, junk)],
        !.reads = f.reads \o SeenRun(f.dataOffset, cnt, line),
        !.dataOffset = f.dataOffset + cnt]

\* `Size > min && Data[at] % 4 == want`, with the read it makes
GateOpen(D, min, at, want, junk) == Len(D) > min /\ Rd(D, at, junk) % 4 = want
GateRead(D, f, min, at, line) ==
  [f EXCEPT !.reads = IF Len(D) > min THEN Append(f.reads, Seen(at, line))
                      ELSE f.reads]

Emit(f, bytes) == [f EXCEPT !.iptcProfile = f.iptcProfile \o bytes]

\* lines 115-123
GenOrphanSentinel(D, f, junk) ==
  LET g == GateRead(D, f, 5, 4, 115)
      h == IF GateOpen(D, 5, 4, 0, junk)
           THEN Trailing(D, Emit(g, <<IPTC_SENTINEL>>), junk, 10, 121)
           ELSE g
  IN [h EXCEPT !.pc = "gate2"]

\* lines 126-140
ExcessLength == 1000
GenExcessLength(D, f, junk) ==
  LET g == GateRead(D, f, 6, 5, 126)
      h == IF GateOpen(D, 6, 5, 1, junk)
           THEN Trailing(D, Emit(g, <<IPTC_SENTINEL, 2, 5,
                                      (ExcessLength \div 256) % UInt8Mod,
                                      ExcessLength % UInt8Mod>>),
                         junk, 20, 138)
           ELSE g
  IN [h EXCEPT !.pc = "gate3"]

\* lines 143-156
GenZeroLength(D, f, junk) ==
  LET g == GateRead(D, f, 7, 6, 143)
      h == IF GateOpen(D, 7, 6, 2, junk)
           THEN Trailing(D, Emit(g, <<IPTC_SENTINEL, 2, 5, 0, 0>>), junk, 10, 154)
           ELSE g
  IN [h EXCEPT !.pc = "gate4"]

\* lines 159-168
FloodOpenOnTwo(D, junk) == GateOpen(D, 8, 7, 2, junk)
FloodOpen(D, junk) == GateOpen(D, 8, 7, 3, junk)
FloodSentinels == [k \in 1..5 |-> IPTC_SENTINEL]
GenSentinelFlood(D, f, junk) ==
  LET g == GateRead(D, f, 8, 7, 159)
      h == IF FloodOpen(D, junk)
           THEN Trailing(D, Emit(g, FloodSentinels), junk, 10, 166)
           ELSE g
  IN [h EXCEPT !.pc = "return"]

\* line 170
GenReturn(D, f, junk) == [f EXCEPT !.pc = "done"]

\* lines 63-112: the main loop run to its end
RECURSIVE GenMainLoop(_, _, _)
GenMainLoop(D, f, junk) ==
  IF LoopCond(D, f)
  THEN GenMainLoop(D, GenPad(D, GenPayload(D, GenHeader(D, f, junk), junk), junk), junk)
  ELSE GenLoopExit(D, f, junk)

\* lines 56-156: the call up to the sentinel-flooding gate
GenBeforeFlood(D, junk) ==
  GenZeroLength(D,
    GenExcessLength(D,
      GenOrphanSentinel(D,
        GenMainLoop(D, GenBegin(D, Frame0, junk), junk), junk), junk), junk)

\* lines 56-171: the whole call
Generate(D, junk) ==
  GenReturn(D, GenSentinelFlood(D, GenBeforeFlood(D, junk), junk), junk)

\* ------------------------------------------------------------------------
\* Actions
\* ------------------------------------------------------------------------
Init ==
  /\ entry \in Entries
  /\ Data \in Inputs
  /\ hpc = IF entry = "generate" THEN "none" ELSE "gate"
  /\ ret = <<>>
  /\ escaped = FALSE
  /\ coutBuf = "orig"
  /\ attached = {}
  /\ pc = IF entry = "generate" THEN Frame0.pc ELSE "idle"
  /\ iptcProfile = Frame0.iptcProfile
  /\ numRecords = Frame0.numRecords
  /\ dataOffset = Frame0.dataOffset
  /\ i = Frame0.i
  /\ length = Frame0.length
  /\ actualLength = Frame0.actualLength
  /\ reads = Frame0.reads
  /\ recs = Frame0.recs
  /\ mainLen = Frame0.mainLen

Begin ==
  /\ pc = "entry"
  /\ \E junk \in Junk : \E f \in {GenBegin(Data, Frame, junk)} : Becomes(f)
  /\ UNCHANGED <<entry, Data, hvars>>

RecordHeader ==
  /\ pc = "loop"
  /\ LoopCond(Data, Frame)
  /\ \E junk \in Junk : \E f \in {GenHeader(Data, Frame, junk)} : Becomes(f)
  /\ UNCHANGED <<entry, Data, hvars>>

CopyPayload ==
  /\ pc = "payload"
  /\ \E junk \in Junk : \E f \in {GenPayload(Data, Frame, junk)} : Becomes(f)
  /\ UNCHANGED <<entry, Data, hvars>>

PadPayload ==
  /\ pc = "pad"
  /\ \E junk \in Junk : \E f \in {GenPad(Data, Frame, junk)} : Becomes(f)
  /\ UNCHANGED <<entry, Data, hvars>>

LoopExit ==
  /\ pc = "loop"
  /\ ~LoopCond(Data, Frame)
  /\ \E junk \in Junk : \E f \in {GenLoopExit(Data, Frame, junk)} : Becomes(f)
  /\ UNCHANGED <<entry, Data, hvars>>

OrphanSentinel ==
  /\ pc = "gate1"
  /\ \E junk \in Junk : \E f \in {GenOrphanSentinel(Data, Frame, junk)} : Becomes(f)
  /\ UNCHANGED <<entry, Data, hvars>>

OverclaimedLength ==
  /\ pc = "gate2"
  /\ \E junk \in Junk : \E f \in {GenExcessLength(Data, Frame, junk)} : Becomes(f)
  /\ UNCHANGED <<entry, Data, hvars>>

ZeroLengthWithData ==
  /\ pc = "gate3"
  /\ \E junk \in Junk : \E f \in {GenZeroLength(Data, Frame, junk)} : Becomes(f)
  /\ UNCHANGED <<entry, Data, hvars>>

SentinelFlood ==
  /\ pc = "gate4"
  /\ \E junk \in Junk : \E f \in {GenSentinelFlood(Data, Frame, junk)} : Becomes(f)
  /\ UNCHANGED <<entry, Data, hvars>>

Return ==
  /\ pc = "return"
  /\ \E junk \in Junk : \E f \in {GenReturn(Data, Frame, junk)} : Becomes(f)
  /\ UNCHANGED <<entry, Data, hvars>>

\* ------------------------------------------------------------------------
\* LLVMFuzzerTestOneInput (both harnesses)
\* ------------------------------------------------------------------------
\* utils.cc lines 26-33
IsInvalidSize(size, min) ==
  IF size < min THEN TRUE
  ELSE IF size > MaxFuzzSize THEN TRUE
  ELSE FALSE

\* `catch (Magick::Exception &e)`: the exceptions a handler stops
CatchesNothing(exc) == FALSE
Catches(exc) == exc = "MagickException"

\* an exception raised inside a try block: control goes to `after` when the
\* handler stops it, and leaves the function otherwise
Raise(exc, after) ==
  IF Catches(exc)
  THEN /\ hpc' = after
       /\ escaped' = escaped
  ELSE /\ hpc' = "unwound"
       /\ escaped' = TRUE

\* lines 174-176 (advanced), 36-38 (basic)
SizeGate ==
  /\ hpc = "gate"
  /\ IF IsInvalidSize(Size, MIN_IPTC_SIZE) \/ Size > MAX_IPTC_SIZE
     THEN /\ hpc' = "returned"
          /\ ret' = <<0>>
     ELSE /\ hpc' = "image"
          /\ ret' = ret
  /\ UNCHANGED <<entry, Data, escaped, coutBuf, attached, gvars>>

\* line 180 and the call of line 183 (advanced), line 42 (basic)
ConstructImage ==
  /\ hpc = "image"
  /\ \E o \in Outcomes :
       IF o = "ok"
       THEN /\ hpc' = IF entry = "advanced" THEN "generate" ELSE "profile"
            /\ pc' = IF entry = "advanced" THEN Frame0.pc ELSE pc
            /\ escaped' = escaped
       ELSE /\ Raise(o, "return")
            /\ pc' = pc
  /\ UNCHANGED <<entry, Data, ret, coutBuf, attached, iptcProfile,
                 numRecords, dataOffset, i, length, actualLength, reads,
                 recs, mainLen>>

\* lines 186 (advanced), 45 (basic): the bytes of iptcBlob
IptcBlob == IF entry = "advanced" THEN iptcProfile ELSE Data

\* lines 183-189 (advanced, once the generator has returned), 45-48 (basic)
AttachProfile ==
  /\ \/ hpc = "generate" /\ pc = "done"
     \/ hpc = "profile"
  /\ \E o \in Outcomes :
       IF o = "ok"
       THEN /\ attached' = attached \cup {"iptc"}
            /\ hpc' = "test1"
            /\ escaped' = escaped
       ELSE /\ Raise(o, "return")
            /\ attached' = attached
  /\ UNCHANGED <<entry, Data, ret, coutBuf, gvars>>

\* lines 192-203 (advanced), 51-63 (basic)
Test1RoundTrip ==
  /\ hpc = "test1"
  /\ \E o \in Outcomes :
       IF o = "ok"
       THEN /\ hpc' = "test2"
            /\ escaped' = escaped
       ELSE Raise(o, "test2")
  /\ UNCHANGED <<entry, Data, ret, coutBuf, attached, gvars>>

\* lines 206-218 (advanced: identify), 66-84 (basic: attribute)
Test2Identify ==
  /\ hpc = "test2"
  /\ LET oldCout == coutBuf
         after == IF entry = "advanced" THEN "test3" ELSE "return"
     IN \E o \in Outcomes :
          IF o = "ok"
          THEN /\ coutBuf' = oldCout
               /\ hpc' = after
               /\ escaped' = escaped
          ELSE /\ coutBuf' = "null"
               /\ Raise(o, after)
  /\ UNCHANGED <<entry, Data, ret, attached, gvars>>

\* lines 221-231
Test3Clone ==
  /\ hpc = "test3"
  /\ \E o \in Outcomes :
       IF o = "ok"
       THEN /\ hpc' = "test4"
            /\ escaped' = escaped
       ELSE Raise(o, "test4")
  /\ UNCHANGED <<entry, Data, ret, coutBuf, attached, gvars>>

\* lines 234-246: `made` of the three profile calls complete before one throws
Test4Profiles ==
  /\ hpc = "test4"
  /\ \E made \in 0..3 :
       /\ attached' = CASE made = 0 -> attached
                        [] made = 1 -> attached \cup {"exif"}
                        [] made = 2 -> (attached \cup {"exif"}) \ {"iptc"}
                        [] made = 3 -> attached \cup {"exif", "iptc"}
       /\ IF made = 3
          THEN /\ hpc' = "return"
               /\ escaped' = escaped
          ELSE Raise("MagickException", "return")
  /\ UNCHANGED <<entry, Data, ret, coutBuf, gvars>>

\* line 252 (advanced), 89 (basic)
ReturnZero ==
  /\ hpc = "return"
  /\ hpc' = "returned"
  /\ ret' = <<0>>
  /\ UNCHANGED <<entry, Data, escaped, coutBuf, attached, gvars>>

\* line 173 (advanced), 35 (basic): the fuzz engine calls the entry point
\* again in the same process, with the same or another input; the locals of
\* the last call are gone, std::cout keeps the buffer it was left with
NextInvocation ==
  /\ hpc = "returned"
  /\ Data' \in {Data} \cup ReplayInputs
  /\ hpc' = "gate"
  /\ ret' = <<>>
  /\ attached' = {}
  /\ \E f \in {[Frame0 EXCEPT !.pc = "idle"]} : Becomes(f)
  /\ UNCHANGED <<entry, escaped, coutBuf>>

Next ==
  \/ Begin
  \/ RecordHeader
  \/ CopyPayload
  \/ PadPayload
  \/ LoopExit
  \/ OrphanSentinel
  \/ OverclaimedLength
  \/ ZeroLengthWithData
  \/ SentinelFlood
  \/ Return
  \/ SizeGate
  \/ ConstructImage
  \/ AttachProfile
  \/ Test1RoundTrip
  \/ Test2Identify
  \/ Test3Clone
  \/ Test4Profiles
  \/ ReturnZero
  \/ NextInvocation

Spec == Init /\ [][Next]_vars

LiveSpec == Spec /\ WF_vars(Next)

\* ------------------------------------------------------------------------
\* Properties
\* ------------------------------------------------------------------------
\* CreateMalformedIPTCProfile has just returned
Returned == pc = "done" /\ hpc \in {"none", "generate"}

ReadAt(line) == \E r \in 1..Len(reads) : reads[r].at = line

\* the declared length that base record r carries in its two length bytes
LengthField(r) ==
  iptcProfile[recs[r].at + 3] * 256 + iptcProfile[recs[r].at + 4]
\* the cursor after base record r's header, and the input left unread there
PayloadFrom(r) == recs[r].lenFrom + recs[r].lenBytes
Unread(r) == Size - PayloadFrom(r)
RealBytes(r) == Min(LengthField(r), Unread(r))
\* where the output after base record r starts
NextAt(r) ==
  IF r < Len(recs) THEN recs[r + 1].at
  ELSE IF pc = "loop" THEN Len(iptcProfile) + 1
  ELSE mainLen + 1
\* a base record has just been completed, or the main loop has just ended
RecordDone == (pc = "loop" /\ Len(recs) > 0) \/ pc = "gate1"

\* C1: every read Data[k] made by CreateMalformedIPTCProfile has k < Size,
\* and Size - dataOffset is evaluated only when dataOffset <= Size.
ReadsInBounds ==
  /\ \A r \in 1..Len(reads) : reads[r].lo >= 0 /\ reads[r].hi < Size
  /\ \A r \in 1..Len(recs) : recs[r].subAt <= Size

ReadsInBoundsWitness ==
  /\ Returned
  /\ \A line \in {60, 68, 72, 78, 87, 103, 115, 126, 143, 159} : ReadAt(line)
  /\ \E r \in 1..Len(reads) : reads[r].hi = Size - 1
  /\ \E r \in 1..Len(recs) : recs[r].subAt = Size

\* C2: for Size = 0 one base record is attempted and the output is the five
\* bytes 0x1C, 2, 5, 0, 0 of a default record.
EmptyInputDefaultRecord ==
  (Returned /\ Size = 0) =>
     /\ numRecords = 1
     /\ iptcProfile = <<IPTC_SENTINEL, 2, 5, 0, 0>>

\* the input with Data[7] replaced by b
Toggle(D, b) == [D EXCEPT ![8] = b]
ToggleBytes == {0, 2, 3, 7}
MainOutput(D) ==
  LET g == GenBeforeFlood(D, 0) IN SubSeq(g.iptcProfile, 1, g.mainLen)
BeforeFlood(D) == GenBeforeFlood(D, 0).iptcProfile
FloodSuffix(D) ==
  LET out == Generate(D, 0).iptcProfile
  IN SubSeq(out, Len(BeforeFlood(D)) + 1, Len(out))
\* five sentinels and up to 10 of the bytes D leaves unread, when b opens
\* the gate
ExpectedFlood(D, b) ==
  LET off == GenBeforeFlood(D, 0).dataOffset
  IN IF Len(D) > 8 /\ b % 4 = 3
     THEN FloodSentinels \o SubSeq(D, off + 1, Min(off + 10, Len(D)))
     ELSE <<>>

\* C3 as stated: changing only Data[7] leaves the bytes of the main loop
\* as they are, and changes only whether the sentinel-flooding suffix
\* (five 0x1C, up to 10 unread bytes) is there.
GateIndependence ==
  (Returned /\ Size >= 8) =>
     \A b \in ToggleBytes :
        /\ MainOutput(Toggle(Data, b)) = MainOutput(Data)
        /\ BeforeFlood(Toggle(Data, b)) = BeforeFlood(Data)
        /\ FloodSuffix(Toggle(Data, b)) = ExpectedFlood(Data, b)

\* C3 amended: changing only Data[7] changes one byte of the main loop's
\* output, the third payload byte of the first record (output index 7),
\* which is Data[7] itself; apart from that byte the output changes only in
\* whether the sentinel-flooding suffix is there.
GateIndependenceButPayload ==
  (Returned /\ Size >= 8) =>
     /\ Generate(Data, 0).iptcProfile = iptcProfile
     /\ \A b \in ToggleBytes :
          /\ MainOutput(Toggle(Data, b)) = [MainOutput(Data) EXCEPT ![8] = b]
          /\ BeforeFlood(Toggle(Data, b)) = [BeforeFlood(Data) EXCEPT ![8] = b]
          /\ FloodSuffix(Toggle(Data, b)) = ExpectedFlood(Data, b)

GateIndependenceWitness ==
  /\ Returned
  /\ Size > 8
  /\ Data[8] % 4 = 3
  /\ Len(FloodSuffix(Data)) > 5
  /\ FloodSuffix(Toggle(Data, 0)) = <<>>
  /\ MainOutput(Toggle(Data, 0)) # MainOutput(Data)

\* the length the input bytes at the cursor give to record r (lines 77-82)
DerivedFromInput(r) ==
  LET o == recs[r].lenFrom
  IN IF o + 1 < Size THEN Data[o + 1] * 256 + Data[o + 2]
     ELSE IF o < Size THEN Data[o + 1]
     ELSE 0

\* C4: with Size > 4 the first record's length bytes encode 0xFFFF, 0xFFF0,
\* 0x7FFF or Data[3]*256 + Data[4] as Data[3] mod 4 is 0, 1, 2 or 3, and no
\* other base record is overridden.
OverrideDeterminism ==
  \A r \in 1..Len(recs) :
     IF r = 1 /\ Size > 4
     THEN LengthField(r) = CASE Data[4] % 4 = 0 -> 65535
                             [] Data[4] % 4 = 1 -> 65520
                             [] Data[4] % 4 = 2 -> 32767
                             [] Data[4] % 4 = 3 -> Data[4] * 256 + Data[5]
     ELSE LengthField(r) = DerivedFromInput(r)

OverrideDeterminismWitness ==
  /\ Size > 4
  /\ Data[4] % 4 = 2
  /\ Len(recs) >= 2
  /\ LengthField(1) = 32767
  /\ LengthField(2) # 32767

\* C5 as stated: the padding byte at index j counted from the first padding
\* byte (j = 0) is 'A' + (j mod 26).
PaddingFillRelative ==
  RecordDone =>
     \A r \in 1..Len(recs) :
        \A j \in 0..(LengthField(r) - RealBytes(r) - 1) :
           iptcProfile[recs[r].at + 5 + RealBytes(r) + j] = 65 + (j % 26)

\* C5 amended: the padding byte at index j counted from the first payload
\* byte of its record (the first padding byte has j = the number of real
\* payload bytes) is 'A' + (j mod 26).
PaddingFillByPayloadIndex ==
  RecordDone =>
     \A r \in 1..Len(recs) :
        \A j \in RealBytes(r)..(LengthField(r) - 1) :
           iptcProfile[recs[r].at + 5 + j] = 65 + (j % 26)

PaddingFillWitness ==
  /\ RecordDone
  /\ \E r \in 1..Len(recs) :
        /\ RealBytes(r) % 26 # 0
        /\ LengthField(r) - RealBytes(r) > 26
        /\ iptcProfile[recs[r].at + 5 + RealBytes(r)] = 65 + (RealBytes(r) % 26)

\* C6: after the two length bytes of every base record come exactly as many
\* bytes as they declare, the first min(length, unread) of them being the
\* unread input bytes in order.
FullyBacked ==
  RecordDone =>
     \A r \in 1..Len(recs) :
        /\ r = 1 => recs[r].at = 1
        /\ iptcProfile[recs[r].at] = IPTC_SENTINEL
        /\ NextAt(r) - (recs[r].at + 5) = LengthField(r)
        /\ \A k \in 1..RealBytes(r) :
              iptcProfile[recs[r].at + 4 + k] = Data[PayloadFrom(r) + k]

FullyBackedWitness ==
  /\ pc = "gate1"
  /\ Len(recs) >= 2
  /\ RealBytes(1) = LengthField(1)
  /\ RealBytes(2) > 0
  /\ RealBytes(2) < LengthField(2)

\* C7: the output is never longer than Size + 65535 + 66.
GrowthConstant == 65535 + 66
BoundedGrowth == Len(iptcProfile) <= Size + GrowthConstant

BoundedGrowthWitness ==
  /\ Len(recs) >= 1
  /\ Len(iptcProfile) >= Size + 65535

CursorLines == {68, 72, 78, 81, 103}
OverrideLines == {87, 89, 91}
IsCursorRead(x) == x.at \in CursorLines
IsMainLoopRead(x) == x.at \in CursorLines \cup OverrideLines
CursorReads == SelectSeq(reads, IsCursorRead)
MainLoopReads == SelectSeq(reads, IsMainLoopRead)
\* the reads through the cursor go up, each index above the last
CursorAscends ==
  LET c == CursorReads
  IN /\ \A a \in 1..Len(c) : c[a].lo <= c[a].hi
     /\ \A a \in 1..(Len(c) - 1) : c[a].hi < c[a + 1].lo
     /\ Len(c) > 0 => c[Len(c)].hi < dataOffset

\* C8 as stated: the cursor never goes back and no byte of Data is read
\* twice within the main record loop.
NoByteReadTwice ==
  /\ CursorAscends
  /\ LET m == MainLoopReads
     IN \A a \in 1..Len(m) :
          ~IsCursorRead(m[a]) =>
             \A b \in 1..Len(m) :
                a # b => (m[a].hi < m[b].lo \/ m[b].hi < m[a].lo)

\* C8 amended: the cursor never goes back and no byte is read twice through
\* the cursor; the one byte the main loop reads again is Data[3], which the
\* override test of the first record reads at its fixed offset.
CursorReadsOnce ==
  /\ CursorAscends
  /\ LET m == MainLoopReads
     IN \A a \in 1..Len(m) :
          ~IsCursorRead(m[a]) =>
             m[a].lo = 3 /\ m[a].hi = 3 /\ Len(recs) >= 1 /\ Size > 4
CursorMonotone ==
  [][NextInvocation \/ dataOffset' >= dataOffset]_vars /\ []CursorReadsOnce

CursorMonotoneWitness ==
  /\ pc = "gate1"
  /\ Len(recs) >= 3
  /\ ReadAt(87)
  /\ ReadAt(103)
  /\ \E a \in 1..Len(reads) : reads[a].at = 78 /\ reads[a].lo = 3

\* C9: the call terminates and returns; the main loop runs at most
\* (Data[0] mod 10) + 1 <= 10 times whatever Size is.
LoopBounded ==
  pc \notin {"idle", "entry"} =>
     /\ numRecords = IF Size > 0 THEN (Data[1] % 10) + 1 ELSE 1
     /\ numRecords <= 10
     /\ Len(recs) <= numRecords
     /\ i <= numRecords
Totality == []LoopBounded /\ ((pc = "entry") ~> (pc = "done"))

TotalityWitness ==
  /\ Returned
  /\ numRecords = 10
  /\ Len(recs) = 10
  /\ Size > 800

\* C10: LLVMFuzzerTestOneInput returns 0 and no exception raised by the
\* library calls leaves it.
ReturnsZero ==
  /\ ~escaped
  /\ hpc # "unwound"
  /\ ret \in {<<>>, <<0>>}
  /\ hpc = "returned" <=> ret = <<0>>

ReturnsZeroWitness ==
  /\ hpc = "returned"
  /\ ret = <<0>>
  /\ Size >= MIN_IPTC_SIZE
  /\ coutBuf = "null"
  /\ attached = {"exif"}

\* the advanced harness holds the vector CreateMalformedIPTCProfile returned
\* and is about to pass it to image.profile("iptc", ...) (lines 183-189)
HandedOver == entry = "advanced" /\ hpc = "generate" /\ pc = "done"

\* C11: for every input the advanced harness's size gate accepts, the
\* profile returned by CreateMalformedIPTCProfile and handed to
\* image.profile("iptc", ...) is at most MAX_IPTC_SIZE (65536) bytes long.
ProfileWithinMaxSize ==
  (HandedOver /\ ~IsInvalidSize(Size, MIN_IPTC_SIZE) /\ Size <= MAX_IPTC_SIZE) =>
     Len(IptcBlob) <= MAX_IPTC_SIZE

\* C12: after any sequence of invocations std::cout has the stream buffer
\* it had before the first one: every invocation that sets the buffer to
\* null restores the saved buffer before it returns, also when the identify
\* or attribute call raises an exception that is then swallowed.
StdoutRestored == hpc \in {"gate", "returned"} => coutBuf = "orig"
====
